---- MODULE Spec2Model ----
(***************************************************************************)
(* processImage / processImageKernel of                                    *)
(* "Non PowerShell Tools/kernelforpictures.cpp": host calls that stage an  *)
(* RGB image on a CUDA device, launch one thread per pixel in 16x16 blocks *)
(* and copy the result back.  The device (allocator, null stream, sticky   *)
(* context error) is modelled as far as the calls of processImage use it.  *)
(***************************************************************************)
EXTENDS Integers, Sequences, FiniteSets, TLC

\* ------------------------------------------------------------- bounds
\* Number of processImage calls (host threads) in one behaviour.
NCalls == 2
\* Largest device buffer the device can grant, in bytes.
MaxBytes == 192
\* How many threads past the oldest unfinished one the device scheduler may
\* run early (1 = strictly in issue order).
SchedWindow == 2
\* How many device buffers a pointer left uninitialised may happen to name:
\* it holds 0 (no allocation) or one of the handles 1 .. MaxStale.
MaxStale == 1

Calls == 1 .. NCalls

\* ------------------------------------------------- machine arithmetic
MaxInt == 2147483647
MinInt == (-2147483647) - 1

\* int + int as the build computes it (two's complement wrap-around).
AddWrap(a, b) ==
  IF a >= 0 /\ b >= 0 /\ a > MaxInt - b THEN (a + MinInt) + (b + MinInt)
  ELSE IF a < 0 /\ b < 0 /\ a < MinInt - b THEN (a - MinInt) + (b - MinInt)
  ELSE a + b

\* The low and the high 16 bits of the product of two 16-bit halves.
MulLow16(a, b) == (((a * (b \div 256)) % 65536) * 256 + a * (b % 256)) % 65536
MulHigh16(a, b) == ((a * (b \div 256) + ((a * (b % 256)) \div 256)) \div 256) % 65536

\* int * int as the build computes it: the low 32 bits of the product,
\* formed from the operands' 16-bit halves and read as a signed int.
MulWrap(a, b) ==
  LET al == a % 65536
      ah == (a \div 65536) % 65536
      bl == b % 65536
      bh == (b \div 65536) % 65536
      lo == MulLow16(al, bl)
      hi == (MulHigh16(al, bl) + MulLow16(ah, bl) + MulLow16(al, bh)) % 65536
  IN  IF hi >= 32768 THEN (hi - 65536) * 65536 + lo ELSE hi * 65536 + lo

\* ------------------------------------------------------ program text
\* dim3 dimBlock(16, 16)
BlockDim == 16
\* bytes per pixel: the literal 3 of "3 * (y * width + x)" and "width * height * 3"
Channels == 3

\* The int expression  width * height * 3  of lines 19, 20, 22 and 29.
ByteCount(w, h) == MulWrap(MulWrap(w, h), Channels)

\* A grid computed with a truncating division, width / dimBlock.x.
GridDimTruncated(w) == w \div BlockDim

\* (width + dimBlock.x - 1) / dimBlock.x : dimBlock.x is unsigned, so the sum is
\* formed modulo 2^32 and the quotient is a block count in 0 .. 2^28.
GridDim(w) ==
  IF w >= 0 THEN (IF w <= MaxInt - (BlockDim - 1)
                    THEN (w + (BlockDim - 1)) \div BlockDim
                    ELSE ((w - 1) \div BlockDim) + 1)
  ELSE IF w + (BlockDim - 1) >= 0 THEN (w + (BlockDim - 1)) \div BlockDim
  ELSE 268435456 + ((w + (BlockDim - 1)) \div BlockDim)

\* int x = blockIdx.x * blockDim.x + threadIdx.x
Coord(blockIdx, threadIdx) == AddWrap(MulWrap(blockIdx, BlockDim), threadIdx)

\* A guard that is off by one in x.
GuardOffByOne(x, y, w, h) == x < w - 1 /\ y < h

\* if (x < width && y < height)
Guard(x, y, w, h) == x < w /\ y < h

\* 3 * (y * width + x) + c
Offset(x, y, w, c) == AddWrap(MulWrap(Channels, AddWrap(MulWrap(y, w), x)), c)

\* ------------------------------------------------------------- inputs
\* (width, height) pairs a caller passes.  The last five are what the code
\* accepts without validation: a zero or negative dimension, and dimensions
\* whose byte count does not fit an int.
Dims ==
  { <<1, 1>>, <<2, 2>>, <<16, 1>>, <<32, 2>>, <<17, 3>>, <<1, 17>>,
    <<0, 1>>, <<1, 0>>, <<0 - 1, 1>>, <<32768, 32768>>, <<641, 6700417>> }
\* Dimensions for which the device also runs the grid thread by thread.
ThreadDims == { <<1, 1>>, <<2, 2>>, <<17, 3>> }
\* Dimensions used when a behaviour holds more than one call.
MultiDims == { <<2, 2>> }
\* Threads the device runs as one step: a warp.
WarpSize == 32
\* A behaviour's environment: the dimensions its callers pass, how many calls
\* are made, whether they may overlap in time, the order in which the device
\* scheduler issues the grid, how many threads it runs as one step, and how
\* many buffers the device has room for (the rest of its memory is in use).
Scenarios ==
  { [w |-> d[1], h |-> d[2], calls |-> 1, conc |-> FALSE, desc |-> b,
     lanes |-> WarpSize, slots |-> n] :
      d \in Dims, b \in BOOLEAN, n \in 0 .. 2 } \cup
  { [w |-> d[1], h |-> d[2], calls |-> 1, conc |-> FALSE, desc |-> b,
     lanes |-> 1, slots |-> 2] :
      d \in ThreadDims, b \in BOOLEAN } \cup
  { [w |-> d[1], h |-> d[2], calls |-> NCalls, conc |-> FALSE, desc |-> FALSE,
     lanes |-> WarpSize, slots |-> n] :
      d \in MultiDims, n \in 1 .. 2 } \cup
  { [w |-> d[1], h |-> d[2], calls |-> NCalls, conc |-> TRUE, desc |-> FALSE,
     lanes |-> WarpSize, slots |-> n] :
      d \in MultiDims, n \in (2 * NCalls - 1) .. (2 * NCalls) }
\* Seeds of the callers' input images.
Seeds == Calls
\* What uninitialised memory (a fresh device buffer, the caller's output
\* buffer before the call) may hold.
JunkBytes == { 0, 255 }

Byte == 0 .. 255
Pattern(seed, n) == [i \in 0 .. n - 1 |-> (seed * 37 + i * 7) % 256]

\* The bytes of a host buffer the model keeps: all of it when the image is at
\* most MaxBytes, else its first MaxBytes bytes (no device buffer is larger,
\* so no successful copy reaches further).
HostLen(w, h) ==
  IF w <= 0 \/ h <= 0 THEN 0
  ELSE IF w <= MaxBytes /\ h <= MaxBytes /\ w * h * Channels <= MaxBytes
       THEN w * h * Channels
  ELSE MaxBytes

\* ------------------------------------------------------------- device
\* Device allocations are named by handles; 0 is a pointer value that names
\* no allocation (NULL, or an address cudaMalloc never returned).
NHandles == 2 * NCalls
Handles == 1 .. NHandles
NoBuffer == [alloc |-> FALSE, size |-> 0, owner |-> 0, data |-> << >>]

VARIABLES
  scenario,   \* the dimensions of this behaviour's calls, and whether calls overlap
  junk,       \* the byte uninitialised memory holds in this behaviour
  pc,         \* pc[c]: the statement call c executes next
  width, height, input, output,   \* the arguments of call c (host buffers by content)
  d_input, d_output,              \* the locals of call c (device pointers)
  mem,        \* mem[h]: the device allocation under handle h
  queue,      \* the kernels launched on the null stream and not yet finished
  ctxError,   \* the sticky error of the CUDA context (set by a kernel fault)
  kern,       \* kern[c]: the launch of call c: grid, arguments, progress
  hist        \* hist[c]: what call c has done so far (observation only)

vars ==
  << scenario, junk, pc, width, height, input, output, d_input, d_output,
     mem, queue, ctxError, kern, hist >>

NoKernel ==
  [state |-> "none", gx |-> 0, gy |-> 0, in |-> 0, out |-> 0,
   lo |-> 0, ahead |-> {}, desc |-> FALSE, lanes |-> 1]
NoHist ==
  [log |-> << >>, failed |-> FALSE, hit |-> {}, twice |-> {}, wrote |-> {},
   wroteTwice |-> {}, last |-> {}, foreign |-> FALSE, rel |-> {},
   sync |-> << >>, from |-> 0]

Init ==
  /\ scenario \in Scenarios
  /\ junk \in JunkBytes
  /\ pc = [c \in Calls |-> "idle"]
  /\ width = [c \in Calls |-> 0]
  /\ height = [c \in Calls |-> 0]
  /\ input = [c \in Calls |-> << >>]
  /\ output = [c \in Calls |-> << >>]
  /\ d_input = [c \in Calls |-> 0]
  /\ d_output = [c \in Calls |-> 0]
  /\ mem = [h \in Handles |-> NoBuffer]
  /\ queue = << >>
  /\ ctxError = FALSE
  /\ kern = [c \in Calls |-> NoKernel]
  /\ hist = [c \in Calls |-> NoHist]

\* --------------------------------------------------------- observation
\* Call c made device call op with byte count size; ok: it returned
\* cudaSuccess; foreignTouch: it acted on a buffer another call allocated.
Note(h, c, op, size, ok, foreignTouch) ==
  [h EXCEPT ![c].log = Append(@, [op |-> op, size |-> size, ok |-> ok]),
            ![c].failed = @ \/ ~ok,
            ![c].foreign = @ \/ foreignTouch]

Allocated(m, p) == p \in Handles /\ m[p].alloc
OwnedByOther(m, p, c) == Allocated(m, p) /\ m[p].owner # c

\* ---------------------------------------------------------- the caller
\* A host thread calls processImage(input, output, width, height) with a fresh
\* image (when several calls are made, call c passes the image of seed c).
\* d_input and d_output are uninitialised locals: the value they hold is
\* chosen where a failed cudaMalloc leaves it in place.
Call(c, seed) ==
  /\ pc[c] = "idle"
  /\ c <= scenario.calls
  /\ scenario.calls > 1 => seed = c
  /\ c > 1 => pc[c - 1] # "idle"
  /\ ~scenario.conc => \A o \in Calls \ {c} : pc[o] \in {"idle", "done"}
  /\ LET n == HostLen(scenario.w, scenario.h) IN
       /\ input' = [input EXCEPT ![c] = Pattern(seed, n)]
       /\ output' = [output EXCEPT ![c] = [i \in 0 .. n - 1 |-> junk]]
  /\ width' = [width EXCEPT ![c] = scenario.w]
  /\ height' = [height EXCEPT ![c] = scenario.h]
  /\ pc' = [pc EXCEPT ![c] = "malloc_in"]
  /\ UNCHANGED << scenario, junk, d_input, d_output, mem, queue, ctxError, kern, hist >>

\* A caller passes the output of a finished call p as the input of call c.
CallChained(c, p) ==
  /\ pc[c] = "idle"
  /\ p # c /\ pc[p] = "done"
  /\ c <= scenario.calls
  /\ c > 1 => pc[c - 1] # "idle"
  /\ ~scenario.conc => \A o \in Calls \ {c} : pc[o] \in {"idle", "done"}
  /\ input' = [input EXCEPT ![c] = output[p]]
  /\ output' = [output EXCEPT ![c] = [i \in DOMAIN output[p] |-> junk]]
  /\ width' = [width EXCEPT ![c] = width[p]]
  /\ height' = [height EXCEPT ![c] = height[p]]
  /\ hist' = [hist EXCEPT ![c].from = p]
  /\ pc' = [pc EXCEPT ![c] = "malloc_in"]
  /\ UNCHANGED << scenario, junk, d_input, d_output, mem, queue, ctxError, kern >>

\* Device buffers in use.
Live == Cardinality({ h \in Handles : mem[h].alloc })

\* Device memory is shared: between two calls that follow one another some
\* other user of the device takes room for one buffer.
OtherDeviceUser(p) ==
  /\ ~scenario.conc /\ scenario.calls > 1
  /\ \A o \in Calls : pc[o] \in {"idle", "done"}
  /\ \E o \in Calls : pc[o] = "done"
  /\ \E o \in Calls : pc[o] = "idle" /\ o <= scenario.calls
  /\ ~ \E q \in Handles : mem[q].alloc /\ mem[q].owner = 0
  /\ Live < scenario.slots
  /\ ~mem[p].alloc /\ \A q \in Handles : q < p => mem[q].alloc
  /\ mem' = [mem EXCEPT ![p] = [alloc |-> TRUE, size |-> 1, owner |-> 0,
                                data |-> [i \in 0 .. 0 |-> junk]]]
  /\ UNCHANGED << scenario, junk, pc, width, height, input, output, d_input,
                  d_output, queue, ctxError, kern, hist >>

\* ------------------------------------------------------- processImage
\* extern "C" void processImage(...): the function returns nothing, sets no
\* out-parameter and throws nothing, so no call tells its caller of a failure.
ReportsFailure(c) == FALSE

\* cudaMalloc(&ptr, n) by call c, leaving p in ptr.  n is the int the call
\* passes; as a size_t a negative n is a request above 2^63 bytes.
CudaMalloc(c, n, p) ==
  \/ /\ ~ctxError /\ n = 0 /\ p = 0
     /\ mem' = mem
     /\ hist' = Note(hist, c, "cudaMalloc", n, TRUE, FALSE)
  \/ /\ ~ctxError /\ n > 0 /\ n <= MaxBytes /\ Live < scenario.slots
     /\ p \in Handles /\ ~mem[p].alloc
     /\ \A q \in Handles : q < p => mem[q].alloc
     /\ mem' = [mem EXCEPT ![p] = [alloc |-> TRUE, size |-> n, owner |-> c,
                                   data |-> [i \in 0 .. n - 1 |-> junk]]]
     /\ hist' = Note(hist, c, "cudaMalloc", n, TRUE, FALSE)
  \/ /\ ctxError \/ n < 0 \/ n > MaxBytes \/ (n > 0 /\ Live >= scenario.slots)
     /\ p \in 0 .. MaxStale
     /\ mem' = mem
     /\ hist' = Note(hist, c, "cudaMalloc", n, FALSE, FALSE)

\* line 19
Malloc_d_input(c) ==
  /\ pc[c] = "malloc_in"
  /\ \E p \in Handles \cup (0 .. MaxStale) :
       /\ CudaMalloc(c, ByteCount(width[c], height[c]), p)
       /\ d_input' = [d_input EXCEPT ![c] = p]
  /\ pc' = [pc EXCEPT ![c] = "malloc_out"]
  /\ UNCHANGED << scenario, junk, width, height, input, output, d_output,
                  queue, ctxError, kern >>

\* line 20
Malloc_d_output(c) ==
  /\ pc[c] = "malloc_out"
  /\ \E p \in Handles \cup (0 .. MaxStale) :
       /\ CudaMalloc(c, ByteCount(width[c], height[c]), p)
       /\ d_output' = [d_output EXCEPT ![c] = p]
  /\ pc' = [pc EXCEPT ![c] = "copy_in"]
  /\ UNCHANGED << scenario, junk, width, height, input, output, d_input,
                  queue, ctxError, kern >>

\* A host copy or free that does not wait for the null stream to drain.
StreamNeverWaits == TRUE

\* cudaMemcpy, cudaFree and the kernels all use the null stream: a call of
\* one of the two returns only once the stream holds no unfinished kernel.
StreamIdle == queue = << >>

\* cudaMemcpy of n bytes to or from the device allocation p succeeds.
CopyOk(p, n, hostLen) ==
  /\ ~ctxError
  /\ n >= 0
  /\ n > 0 => (Allocated(mem, p) /\ n <= mem[p].size /\ n <= hostLen)

\* line 22
MemcpyHostToDevice(c) ==
  /\ pc[c] = "copy_in"
  /\ StreamIdle
  /\ LET n  == ByteCount(width[c], height[c])
         p  == d_input[c]
         ok == CopyOk(p, n, Cardinality(DOMAIN input[c]))
     IN  /\ mem' = IF ok /\ n > 0
                     THEN [mem EXCEPT ![p].data =
                             [i \in DOMAIN @ |-> IF i < n THEN input[c][i] ELSE @[i]]]
                     ELSE mem
         /\ hist' = Note(hist, c, "cudaMemcpyHostToDevice", n, ok,
                         ok /\ n > 0 /\ OwnedByOther(mem, p, c))
  /\ pc' = [pc EXCEPT ![c] = "launch"]
  /\ UNCHANGED << scenario, junk, width, height, input, output, d_input,
                  d_output, queue, ctxError, kern >>

\* A launch configuration the device accepts: at least one block each way and
\* at most 65535 blocks in y (gridDim.x may be up to 2^31 - 1).
ConfigOk(gx, gy) == gx >= 1 /\ gy >= 1 /\ gy <= 65535

\* lines 24-27
Launch(c) ==
  /\ pc[c] = "launch"
  /\ LET gx == GridDim(width[c])
         gy == GridDim(height[c])
         ok == ~ctxError /\ ConfigOk(gx, gy)
     IN  /\ kern' = [kern EXCEPT ![c] =
                          [state |-> IF ok THEN "queued" ELSE "rejected",
                           gx |-> gx, gy |-> gy,
                           in |-> d_input[c], out |-> d_output[c],
                           lo |-> 0, ahead |-> {}, desc |-> scenario.desc,
                           lanes |-> scenario.lanes]]
         /\ queue' = IF ok THEN Append(queue, c) ELSE queue
         /\ hist' = Note(hist, c, "launch", 0, ok, FALSE)
  /\ pc' = [pc EXCEPT ![c] = "copy_out"]
  /\ UNCHANGED << scenario, junk, width, height, input, output, d_input,
                  d_output, mem, ctxError >>

\* line 29
MemcpyDeviceToHost(c) ==
  /\ pc[c] = "copy_out"
  /\ StreamIdle
  /\ LET n  == ByteCount(width[c], height[c])
         p  == d_output[c]
         ok == CopyOk(p, n, Cardinality(DOMAIN output[c]))
     IN  /\ output' = IF ok /\ n > 0
                        THEN [output EXCEPT ![c] =
                                [i \in DOMAIN @ |-> IF i < n THEN mem[p].data[i] ELSE @[i]]]
                        ELSE output
         /\ hist' = [Note(hist, c, "cudaMemcpyDeviceToHost", n, ok,
                          ok /\ n > 0 /\ OwnedByOther(mem, p, c))
                       EXCEPT ![c].sync = Append(@, kern[c].state)]
  /\ pc' = [pc EXCEPT ![c] = "free_in"]
  /\ UNCHANGED << scenario, junk, width, height, input, d_input, d_output,
                  mem, queue, ctxError, kern >>

\* cudaFree(p) by call c.  cudaFree(NULL) does nothing; a pointer that names no
\* live allocation is an error; after a kernel fault every call is an error.
CudaFree(c, p) ==
  LET ok == ~ctxError /\ (p = 0 \/ Allocated(mem, p))
      rl == ok /\ p # 0
      o  == IF rl THEN mem[p].owner ELSE c
      noted == Note(hist, c, "cudaFree", 0, ok, rl /\ o # c)
  IN  /\ mem' = IF rl THEN [mem EXCEPT ![p] = NoBuffer] ELSE mem
      /\ hist' = IF rl /\ o \in Calls
                   THEN [noted EXCEPT ![o].rel =
                           @ \cup {[h |-> p, by |-> c, at |-> pc[o]]}]
                   ELSE noted

\* line 31
Free_d_input(c) ==
  /\ pc[c] = "free_in"
  /\ StreamIdle
  /\ CudaFree(c, d_input[c])
  /\ pc' = [pc EXCEPT ![c] = "free_out"]
  /\ UNCHANGED << scenario, junk, width, height, input, output, d_input,
                  d_output, queue, ctxError, kern >>

\* line 32, and the return of line 33
Free_d_output(c) ==
  /\ pc[c] = "free_out"
  /\ StreamIdle
  /\ CudaFree(c, d_output[c])
  /\ pc' = [pc EXCEPT ![c] = "done"]
  /\ UNCHANGED << scenario, junk, width, height, input, output, d_input,
                  d_output, queue, ctxError, kern >>

\* -------------------------------------------------- processImageKernel
ThreadsPerBlock == BlockDim * BlockDim
\* Threads of the launch k.
NThreads(k) == k.gx * k.gy * ThreadsPerBlock
\* The device runs the grid in units of k.lanes threads with consecutive linear
\* thread numbers (single threads, or warps).
NUnits(k) == (NThreads(k) + k.lanes - 1) \div k.lanes

\* The unit the scheduler issues in position pos (it issues the grid in
\* ascending or in descending order).
UnitAt(k, pos) == IF k.desc THEN NUnits(k) - 1 - pos ELSE pos

\* Positions the scheduler may run next.
Eligible(k) ==
  { pos \in k.lo .. (k.lo + SchedWindow - 1) :
      pos < NUnits(k) /\ pos \notin k.ahead }

RECURSIVE NextLo(_, _)
NextLo(pos, ahead) == IF pos \in ahead THEN NextLo(pos + 1, ahead) ELSE pos

\* The only element of a one-element set.
The(S) == CHOOSE v \in S : TRUE

\* One assignment  output[3 * (y * width + x) + ch] = input[3 * (y * width + x) + ch]
\* of a thread, applied to device memory s.m unless an earlier one faulted.
\* An access outside a live allocation is a fault.
Stmt(s, k, x, y, w, ch) ==
  IF ~s.ok THEN s
  ELSE The({ IF /\ Allocated(s.m, k.in) /\ off >= 0 /\ off < s.m[k.in].size
                /\ Allocated(s.m, k.out) /\ off >= 0 /\ off < s.m[k.out].size
               THEN [m |-> [s.m EXCEPT ![k.out].data[off] = s.m[k.in].data[off]],
                     ok |-> TRUE, acc |-> s.acc \cup {off}, wr |-> s.wr \cup {off}]
               ELSE [m |-> s.m, ok |-> FALSE, acc |-> s.acc \cup {off}, wr |-> s.wr]
             : off \in {Offset(x, y, w, ch)} })

\* The three assignments of lines 10-12, in order.
Stmts(s0, k, x, y, w) ==
  The({ The({ Stmt(s2, k, x, y, w, 2) : s2 \in {Stmt(s1, k, x, y, w, 1)} })
        : s1 \in {Stmt(s0, k, x, y, w, 0)} })

\* The body of the kernel for the thread (blockIdx, threadIdx) on memory m.
ThreadBody(m, k, bx, by, tx, ty, w, h) ==
  The({ IF Guard(c[1], c[2], w, h)
          THEN [x |-> c[1], y |-> c[2], passed |-> TRUE,
                r |-> Stmts([m |-> m, ok |-> TRUE, acc |-> {}, wr |-> {}],
                            k, c[1], c[2], w)]
          ELSE [x |-> c[1], y |-> c[2], passed |-> FALSE,
                r |-> [m |-> m, ok |-> TRUE, acc |-> {}, wr |-> {}]]
        : c \in {<< Coord(bx, tx), Coord(by, ty) >>} })

\* Thread number t of the launch runs on s.m; s also carries what the launch
\* has been seen to do (observation only).
RunThread(s, k, t, w, h) ==
  The({ [m |-> b.r.m, ok |-> b.r.ok,
         hit |-> IF b.passed THEN s.hit \cup {<< b.x, b.y >>} ELSE s.hit,
         twice |-> IF b.passed /\ << b.x, b.y >> \in s.hit
                     THEN s.twice \cup {<< b.x, b.y >>} ELSE s.twice,
         wrote |-> s.wrote \cup b.r.wr,
         wroteTwice |-> s.wroteTwice \cup (b.r.wr \cap s.wrote),
         last |-> s.last \cup {[x |-> b.x, y |-> b.y, passed |-> b.passed,
                                acc |-> b.r.acc, ok |-> b.r.ok]}]
        : b \in {ThreadBody(s.m, k, ((t \div ThreadsPerBlock) % k.gx),
                            ((t \div ThreadsPerBlock) \div k.gx),
                            ((t % ThreadsPerBlock) % BlockDim),
                            ((t % ThreadsPerBlock) \div BlockDim), w, h)} })

\* Threads t .. tEnd of one unit, in lane order, up to the first fault.
RECURSIVE RunUnit(_, _, _, _, _, _)
RunUnit(s, k, t, tEnd, w, h) ==
  IF t > tEnd \/ ~s.ok THEN s
  ELSE The({ RunUnit(s2, k, t + 1, tEnd, w, h) : s2 \in {RunThread(s, k, t, w, h)} })

\* The device runs one unit of the kernel at the head of the null stream.
\* A fault aborts the kernel, sets the context error, which stays, and loses
\* the work queued behind it.
KernelStep ==
  /\ queue # << >>
  /\ LET c == Head(queue)
         k == kern[c]
     IN \E pos \in Eligible(k) :
        \E r \in { RunUnit([m |-> mem, ok |-> TRUE, hit |-> hist[c].hit,
                            twice |-> hist[c].twice, wrote |-> hist[c].wrote,
                            wroteTwice |-> hist[c].wroteTwice, last |-> {}],
                           k, UnitAt(k, pos) * k.lanes,
                           IF UnitAt(k, pos) * k.lanes + k.lanes > NThreads(k)
                             THEN NThreads(k) - 1
                             ELSE UnitAt(k, pos) * k.lanes + k.lanes - 1,
                           width[c], height[c]) } :
          LET lo2 == IF pos = k.lo THEN NextLo(pos + 1, k.ahead) ELSE k.lo
              ah2 == { a \in k.ahead \cup {pos} : a > lo2 }
              fin == lo2 >= NUnits(k)
              h1  == [hist EXCEPT
                        ![c].last = r.last, ![c].hit = r.hit, ![c].twice = r.twice,
                        ![c].wrote = r.wrote, ![c].wroteTwice = r.wroteTwice,
                        ![c].foreign = @ \/ ((\E th \in r.last : th.passed) /\
                                              (OwnedByOther(mem, k.in, c) \/
                                               OwnedByOther(mem, k.out, c)))]
          IN  /\ mem' = r.m
              /\ IF r.ok
                   THEN /\ kern' = [kern EXCEPT
                                      ![c].lo = lo2, ![c].ahead = ah2,
                                      ![c].state = IF fin THEN "complete" ELSE "queued"]
                        /\ queue' = IF fin THEN Tail(queue) ELSE queue
                        /\ ctxError' = ctxError
                        /\ hist' = h1
                   ELSE /\ kern' = [o \in Calls |->
                                      IF kern[o].state = "queued"
                                        THEN [kern[o] EXCEPT !.state = "faulted"]
                                        ELSE kern[o]]
                        /\ queue' = << >>
                        /\ ctxError' = TRUE
                        /\ hist' = [o \in Calls |->
                                      IF kern[o].state = "queued"
                                        THEN [h1[o] EXCEPT !.failed = TRUE]
                                        ELSE h1[o]]
  /\ UNCHANGED << scenario, junk, pc, width, height, input, output, d_input, d_output >>

\* ------------------------------------------------------ specification
Next ==
  \/ \E c \in Calls, seed \in Seeds : Call(c, seed)
  \/ \E c \in Calls, p \in Calls : CallChained(c, p)
  \/ \E p \in Handles : OtherDeviceUser(p)
  \/ \E c \in Calls : Malloc_d_input(c)
  \/ \E c \in Calls : Malloc_d_output(c)
  \/ \E c \in Calls : MemcpyHostToDevice(c)
  \/ \E c \in Calls : Launch(c)
  \/ KernelStep
  \/ \E c \in Calls : MemcpyDeviceToHost(c)
  \/ \E c \in Calls : Free_d_input(c)
  \/ \E c \in Calls : Free_d_output(c)

Spec == Init /\ [][Next]_vars

\* ------------------------------------------------------------- claims
Returned(c) == pc[c] = "done"
ValidDims(c) == width[c] > 0 /\ height[c] > 0
\* Some device operation of some call has failed so far.
AnyFailed == \E c \in Calls : hist[c].failed
\* The image of call c is small enough for the model to enumerate its pixels.
Small(c) == ValidDims(c) /\ width[c] <= MaxBytes /\ height[c] <= MaxBytes
Pixels(c) == (0 .. width[c] - 1) \X (0 .. height[c] - 1)
\* n (an int passed as a size_t byte count) equals width * height * 3.
IsTrueSize(n, w, h) ==
  n >= 0 /\ n % Channels = 0 /\ (n \div Channels) % w = 0 /\ (n \div Channels) \div w = h
\* Byte offset off lies in [0, width * height * 3).
InImage(off, w, h) == off >= 0 /\ ((off \div Channels) \div w) < h

\* C1: a call with positive dimensions that has returned, no device operation
\* having failed, has left in output exactly the bytes of input, whatever
\* order the device ran the threads in.
C1_IdentityWhenNothingFailed ==
  \A c \in Calls :
    (Returned(c) /\ ValidDims(c) /\ ~AnyFailed) => output[c] = input[c]

C1_Witness ==
  \E c \in Calls :
    /\ Returned(c) /\ ~AnyFailed /\ width[c] = 17 /\ height[c] = 3
    /\ kern[c].desc /\ kern[c].lanes = 1
    /\ output[c] = input[c] /\ \E i \in DOMAIN output[c] : output[c][i] # junk

\* C2: for positive dimensions the grid of ceil(width/16) x ceil(height/16)
\* blocks of 16x16 threads holds exactly one thread for every pixel: each
\* column x < width is the coordinate of exactly one (blockIdx.x, threadIdx.x)
\* and each row y < height of exactly one (blockIdx.y, threadIdx.y); no pixel
\* is ever transformed twice, and a kernel that has run to completion has
\* transformed every pixel.
C2_EveryPixelExactlyOnce ==
  \A c \in Calls :
    /\ (Small(c) /\ pc[c] = "copy_out" /\ kern[c].lo = 0 /\ kern[c].ahead = {}) =>
         /\ \A x \in 0 .. width[c] - 1 :
              Cardinality({ bt \in (0 .. kern[c].gx - 1) \X (0 .. BlockDim - 1) :
                              Coord(bt[1], bt[2]) = x }) = 1
         /\ \A y \in 0 .. height[c] - 1 :
              Cardinality({ bt \in (0 .. kern[c].gy - 1) \X (0 .. BlockDim - 1) :
                              Coord(bt[1], bt[2]) = y }) = 1
    /\ ValidDims(c) => hist[c].twice = {}
    /\ (Small(c) /\ kern[c].state = "complete") => hist[c].hit = Pixels(c)

C2_Witness ==
  \E c \in Calls :
    /\ width[c] = 17 /\ height[c] = 3 /\ kern[c].state = "complete"
    /\ kern[c].gx = 2 /\ kern[c].gy = 1
    /\ Cardinality(hist[c].hit) = 51

\* C3: no thread of a call's kernel has run before the call's host-to-device
\* copy returned, and when the device-to-host copy of a call reads the output
\* buffer the call's kernel is no longer queued or running.
C3_PhasesOrdered ==
  \A c \in Calls :
    /\ (kern[c].lo > 0 \/ kern[c].ahead # {} \/ hist[c].last # {}) =>
         \E i \in DOMAIN hist[c].log : hist[c].log[i].op = "cudaMemcpyHostToDevice"
    /\ \A i \in DOMAIN hist[c].sync : hist[c].sync[i] # "queued"
    /\ kern[c].state = "queued" => pc[c] = "copy_out"

C3_Witness ==
  \E c \in Calls :
    /\ scenario.conc /\ hist[c].sync = << "complete" >>
    /\ \E o \in Calls \ {c} : kern[o].state = "queued" /\ kern[o].lo > 0

\* C4: a call that has returned holds no device buffer any more, and each of
\* its two buffers was released exactly once, by the call itself, after the
\* output copy.
C4_BuffersReleased ==
  \A c \in Calls :
    /\ Returned(c) => ~ \E p \in Handles : mem[p].alloc /\ mem[p].owner = c
    /\ \A r \in hist[c].rel : r.by = c /\ r.at \in { "free_in", "free_out" }

\* C5: a call during which a device operation failed either still delivers
\* the full transformed output or tells its caller that it failed.
C5_FullOutputOrReportedFailure ==
  \A c \in Calls :
    (Returned(c) /\ hist[c].failed) => (output[c] = input[c] \/ ReportsFailure(c))

\* C6: a call with width <= 0 or height <= 0 is rejected before any device
\* call: it allocates nothing, copies nothing and launches nothing.
C6_InvalidDimensionsRejected ==
  \A c \in Calls :
    (pc[c] # "idle" /\ ~ValidDims(c)) => hist[c].log = << >>

\* C7: of calls that overlap in time none touches a device buffer of another,
\* and each that has returned has in its output the bytes of its own input.
C7_ConcurrentCallsIndependent ==
  scenario.conc =>
    \A c \in Calls :
      /\ ~hist[c].foreign
      /\ Returned(c) => output[c] = input[c]

\* C8: every byte count a call passes to cudaMalloc or cudaMemcpy equals
\* width * height * 3, also when that product does not fit a 32-bit int.
C8_SizesAreTrueByteCount ==
  \A c \in Calls :
    ValidDims(c) =>
      \A i \in DOMAIN hist[c].log :
        hist[c].log[i].op # "launch" /\ hist[c].log[i].op # "cudaFree" =>
          IsTrueSize(hist[c].log[i].size, width[c], height[c])

\* C9: a call whose input is the output of an earlier call with the same
\* valid dimensions returns that same output again.
C9_Idempotent ==
  \A c \in Calls :
    (Returned(c) /\ hist[c].from # 0 /\ ValidDims(c)) =>
      output[c] = output[hist[c].from]

\* C10: a thread whose guard fails reads and writes nothing; a thread whose
\* guard passes touches only the offsets 3 * (y * width + x) + c, c in 0 .. 2,
\* each inside [0, width * height * 3); no access faults and no output byte
\* is written by two threads.
C10_AccessesInBounds ==
  \A c \in Calls :
    /\ hist[c].wroteTwice = {}
    /\ \A t \in hist[c].last :
         /\ ~t.passed => t.acc = {}
         /\ t.passed =>
              /\ t.ok
              /\ \A off \in t.acc :
                   /\ InImage(off, width[c], height[c])
                   /\ off \div Channels = t.y * width[c] + t.x

====
